---- MODULE Spec2Model ----
(***************************************************************************)
(* EventEmitter of src/src/events.ts: a registry `_events` from event type *)
(* to an array of handlers, the `_once` property the emitter writes on     *)
(* each handler function, and the operations addListener / once / off /    *)
(* emit.  Each operation is an operator from the registry (and flags) to   *)
(* the registry after the call, the value returned and, for emit, the      *)
(* handler invocations made.  Handlers of this specification return or     *)
(* throw; they do not call the emitter while they run.                     *)
(*                                                                         *)
(* Event.timestamp (Date.now(), events.ts:52) is written once and never    *)
(* read by the emitter; it is not part of the state.                       *)
(***************************************************************************)
EXTENDS Integers, Sequences, FiniteSets, TLC

\* Number of distinct handler functions the callers own.
NumHandlers == 3

\* Callers register while fewer than this many entries are held in all.
MaxRegistered == 3

\* The handler functions (typeof handler === 'function'), compared by identity.
Callables == {"h" \o ToString(i) : i \in 1..NumHandlers}

\* A handler argument that is not a function.
NotCallable == "not a function"

\* An argument left out (undefined; `x == null` holds for it).
Undefined == "undefined"

\* Event types that are strings.
StringTypes == {"a", "123"}

\* The number 123 passed where a type is expected.
Num123 == "Number(123)"

\* Arguments a caller can pass as `type` and as `handler`.
TypeArgs == StringTypes \cup {Num123}
HandlerArgs == Callables \cup {NotCallable}

\* Event payloads.
Payloads == {"d1", "d2"}

VARIABLES
    _events,    \* events.ts:71  own keys of the registry object -> handler array
    _once,      \* events.ts:98  handler._once, for the handlers that have the property
    regOrder,   \* per type, the registered handlers in the order addListener accepted them
    pass        \* events.ts:195-209  the emit in progress: its iterator, its event.once,
                \* the handler being run and the array object it iterates

vars == <<_events, _once, regOrder, pass>>

----------------------------------------------------------------------------
\* typeof type === 'string'
isValidType(type) == type \in StringTypes

\* A validator that only rejects a missing handler (handler != null).
isValidHandlerNotNull(handler) == handler # Undefined

\* typeof handler === 'function'
isValidHandler(handler) == handler \in Callables

\* The property key of `this._events[type]`: a number is converted to its
\* decimal string.
ToKey(type) == IF type = Num123 THEN "123" ELSE type

\* obj[key] = value
Put(obj, key, value) ==
    [k \in DOMAIN obj \cup {key} |-> IF k = key THEN value ELSE obj[k]]

\* `new Events()`: an object with no own keys.
NewEvents == <<>>

\* Array.prototype.includes
includes(handlers, handler) == \E i \in 1..Len(handlers) : handlers[i] = handler

\* handlers.splice(i, 1), i counted from 1
splice(handlers, i) ==
    [j \in 1..(Len(handlers) - 1) |-> IF j < i THEN handlers[j] ELSE handlers[j + 1]]

\* The handlers registered on a type (none when the key is absent).
Handlers(ev, type) == IF type \in DOMAIN ev THEN ev[type] ELSE <<>>

\* handler._once ?? false
OnceFlag(fl, handler) == IF handler \in DOMAIN fl THEN fl[handler] ELSE FALSE

----------------------------------------------------------------------------
\* addListener with line 96 left out: a duplicate is pushed again.
addListenerNoDedup(ev, fl, type, handler) ==
    IF ~isValidType(type) \/ ~isValidHandler(handler)
    THEN [events |-> ev, once |-> fl, ret |-> FALSE]
    ELSE [events |-> Put(ev, type, Append(Handlers(ev, type), handler)),
          once   |-> Put(fl, handler, FALSE),
          ret    |-> TRUE]

\* addListener with unshift in place of push.
addListenerUnshift(ev, fl, type, handler) ==
    IF ~isValidType(type) \/ ~isValidHandler(handler)
    THEN [events |-> ev, once |-> fl, ret |-> FALSE]
    ELSE LET ev1 == IF type \in DOMAIN ev THEN ev ELSE Put(ev, type, <<>>)
         IN  IF includes(ev1[type], handler)
             THEN [events |-> ev1, once |-> fl, ret |-> FALSE]
             ELSE [events |-> Put(ev1, type, <<handler>> \o ev1[type]),
                   once   |-> Put(fl, handler, FALSE),
                   ret    |-> TRUE]

\* addListener rejecting a handler that is registered on any type.
addListenerAnyType(ev, fl, type, handler) ==
    IF ~isValidType(type) \/ ~isValidHandler(handler)
    THEN [events |-> ev, once |-> fl, ret |-> FALSE]
    ELSE LET ev1 == IF type \in DOMAIN ev THEN ev ELSE Put(ev, type, <<>>)
         IN  IF \E k \in DOMAIN ev1 : includes(ev1[k], handler)
             THEN [events |-> ev1, once |-> fl, ret |-> FALSE]
             ELSE [events |-> Put(ev1, type, Append(ev1[type], handler)),
                   once   |-> Put(fl, handler, FALSE),
                   ret    |-> TRUE]

\* addListener with line 98 left out: the handler's flag is not reset.
addListenerKeepFlag(ev, fl, type, handler) ==
    IF ~isValidType(type) \/ ~isValidHandler(handler)
    THEN [events |-> ev, once |-> fl, ret |-> FALSE]
    ELSE LET ev1 == IF type \in DOMAIN ev THEN ev ELSE Put(ev, type, <<>>)
         IN  IF includes(ev1[type], handler)
             THEN [events |-> ev1, once |-> fl, ret |-> FALSE]
             ELSE [events |-> Put(ev1, type, Append(ev1[type], handler)),
                   once   |-> fl,
                   ret    |-> TRUE]

\* addListener(type, handler): the registry, the flags and the return value.
addListener(ev, fl, type, handler) ==
    IF ~isValidType(type) THEN [events |-> ev, once |-> fl, ret |-> FALSE]
    ELSE IF ~isValidHandler(handler) THEN [events |-> ev, once |-> fl, ret |-> FALSE]
    ELSE LET ev1 == IF type \in DOMAIN ev THEN ev ELSE Put(ev, type, <<>>)
         IN  IF includes(ev1[type], handler)
             THEN [events |-> ev1, once |-> fl, ret |-> FALSE]
             ELSE [events |-> Put(ev1, type, Append(ev1[type], handler)),
                   once   |-> Put(fl, handler, FALSE),
                   ret    |-> TRUE]

\* once with the flag written whatever addListener returned.
onceAlways(ev, fl, type, handler) ==
    LET r == addListener(ev, fl, type, handler)
    IN  [r EXCEPT !.once = Put(r.once, handler, TRUE)]

\* once(type, handler)
once(ev, fl, type, handler) ==
    LET r == addListener(ev, fl, type, handler)
    IN  IF r.ret THEN [r EXCEPT !.once = Put(r.once, handler, TRUE)] ELSE r

\* off whose type-only form discards the whole registry.
offTypeResetsAll(ev, type, handler) ==
    IF type = Undefined \/ handler = Undefined THEN NewEvents
    ELSE IF ~isValidType(type) \/ ~isValidHandler(handler) THEN ev
    ELSE IF type \notin DOMAIN ev \/ Len(ev[type]) = 0 THEN ev
    ELSE IF includes(ev[type], handler)
         THEN Put(ev, type,
                  splice(ev[type],
                         CHOOSE i \in 1..Len(ev[type]) :
                             /\ ev[type][i] = handler
                             /\ \A j \in 1..(i - 1) : ev[type][j] # handler))
         ELSE ev

\* off(type?, handler?): the registry after the call.
off(ev, type, handler) ==
    IF type = Undefined THEN NewEvents
    ELSE IF handler = Undefined THEN Put(ev, ToKey(type), <<>>)
    ELSE IF ~isValidType(type) THEN ev
    ELSE IF ~isValidHandler(handler) THEN ev
    ELSE IF type \notin DOMAIN ev \/ Len(ev[type]) = 0 THEN ev
    ELSE IF includes(ev[type], handler)
         THEN Put(ev, type,
                  splice(ev[type],
                         CHOOSE i \in 1..Len(ev[type]) :
                             /\ ev[type][i] = handler
                             /\ \A j \in 1..(i - 1) : ev[type][j] # handler))
         ELSE ev

----------------------------------------------------------------------------
\* The event object a handler receives (its fields when the handler is called).
EventOf(type, data, evOnce) == [type |-> type, data |-> data, once |-> evOnce]

\* One iteration of emit's loop with the handler's exception swallowed.
EmitStepCatch(ev, fl, type, data, evOnce, i, throwers) ==
    LET handler == ev[type][i + 1]
        once1   == evOnce \/ OnceFlag(fl, handler)
    IN  IF ~isValidHandler(handler)
        THEN [events |-> ev, evOnce |-> evOnce, call |-> <<>>, threw |-> FALSE]
        ELSE [events |-> IF once1 THEN off(ev, type, handler) ELSE ev,
              evOnce |-> once1,
              call   |-> <<[handler |-> handler, event |-> EventOf(type, data, once1)]>>,
              threw  |-> FALSE]

\* One iteration of emit's loop with a one-shot handler taken out of the
\* array before it is called.
EmitStepRemoveFirst(ev, fl, type, data, evOnce, i, throwers) ==
    LET handler == ev[type][i + 1]
        once1   == evOnce \/ OnceFlag(fl, handler)
    IN  IF ~isValidHandler(handler)
        THEN [events |-> ev, evOnce |-> evOnce, call |-> <<>>, threw |-> FALSE]
        ELSE [events |-> IF once1 THEN off(ev, type, handler) ELSE ev,
              evOnce |-> once1,
              call   |-> <<[handler |-> handler, event |-> EventOf(type, data, once1)]>>,
              threw  |-> handler \in throwers]

\* One iteration of emit's loop (events.ts:200-209).  The array iterator has
\* handed out i elements; `handlers` is the array object stored under
\* _events[type], so the splice of off() is seen by the iterator.  `throwers`
\* are the handlers that throw when called.
EmitStep(ev, fl, type, data, evOnce, i, throwers) ==
    LET handler == ev[type][i + 1]
        once1   == evOnce \/ OnceFlag(fl, handler)
    IN  IF ~isValidHandler(handler)
        THEN [events |-> ev, evOnce |-> evOnce, call |-> <<>>, threw |-> FALSE]
        ELSE IF handler \in throwers
        THEN [events |-> ev, evOnce |-> once1,
              call   |-> <<[handler |-> handler, event |-> EventOf(type, data, once1)]>>,
              threw  |-> TRUE]
        ELSE [events |-> IF once1 THEN off(ev, type, handler) ELSE ev,
              evOnce |-> once1,
              call   |-> <<[handler |-> handler, event |-> EventOf(type, data, once1)]>>,
              threw  |-> FALSE]

\* emit's for...of loop: the iterator stops when its index reaches the
\* array's current length.
RECURSIVE EmitLoop(_, _, _, _, _, _, _, _)
EmitLoop(ev, fl, type, data, evOnce, i, throwers, done) ==
    IF i >= Len(ev[type])
    THEN [events |-> ev, calls |-> done, ret |-> "undefined"]
    ELSE LET s == EmitStep(ev, fl, type, data, evOnce, i, throwers)
         IN  IF s.threw
             THEN [events |-> s.events, calls |-> done \o s.call, ret |-> "throw"]
             ELSE EmitLoop(s.events, fl, type, data, s.evOnce, i + 1, throwers,
                           done \o s.call)

\* emit with line 193 left out: the type is used as a property key unchecked.
emitNoTypeCheck(ev, fl, type, data, throwers) ==
    IF ToKey(type) \notin DOMAIN ev \/ Len(ev[ToKey(type)]) = 0
    THEN [events |-> ev, calls |-> <<>>, ret |-> "undefined"]
    ELSE EmitLoop(ev, fl, ToKey(type), data, FALSE, 0, throwers, <<>>)

\* emit(type, data): the registry after the call, the handler invocations
\* made, and whether the call returned or threw.
emit(ev, fl, type, data, throwers) ==
    IF ~isValidType(type) THEN [events |-> ev, calls |-> <<>>, ret |-> "undefined"]
    ELSE IF type \notin DOMAIN ev \/ Len(ev[type]) = 0
    THEN [events |-> ev, calls |-> <<>>, ret |-> "undefined"]
    ELSE EmitLoop(ev, fl, type, data, FALSE, 0, throwers, <<>>)

\* on delegating to once.
onAsOnce(ev, fl, type, handler) == once(ev, fl, type, handler)

\* on(type, handler)
on(ev, fl, type, handler) == addListener(ev, fl, type, handler)

\* removeListener(type?, handler?)
removeListener(ev, type, handler) == off(ev, type, handler)

\* What a handler's body does the first time it is called: nothing, or one
\* call of the emitter it is registered on, for the type being emitted.
NoCall == [op |-> "none", handler |-> Undefined]

\* The handler bodies in which only `h` acts, by the call `c`.
Body(h, c) == [g \in Callables |-> IF g = h THEN c ELSE NoCall]

\* emit with handlers that call back into the emitter.  `st` carries the
\* registry, the _once fields, the handlers whose body has already acted and
\* the invocations made so far (each with the nesting depth of its emit).
\* on/once/off(type, g) change the array object the iterator is reading.
RECURSIVE emitRe(_, _, _, _)
RECURSIVE EmitLoopRe(_, _, _, _, _, _)

\* The call a handler body makes (run inside events.ts:205).
RunCall(st, type, c, body, depth) ==
    IF c.op = "on"
    THEN LET r == on(st.events, st.once, type, c.handler)
         IN  [st EXCEPT !.events = r.events, !.once = r.once]
    ELSE IF c.op = "once"
    THEN LET r == once(st.events, st.once, type, c.handler)
         IN  [st EXCEPT !.events = r.events, !.once = r.once]
    ELSE IF c.op = "off"
    THEN [st EXCEPT !.events = off(st.events, type, c.handler)]
    ELSE IF c.op = "emit"
    THEN emitRe(st, type, body, depth + 1)
    ELSE st

\* emit's for...of loop (events.ts:200-209) with the handler's body run at
\* line 205 and the removal of line 208 after the handler has returned.
EmitLoopRe(st, type, evOnce, i, body, depth) ==
    IF i >= Len(st.events[type])
    THEN st
    ELSE LET handler == st.events[type][i + 1]
             once1   == evOnce \/ OnceFlag(st.once, handler)
             called  == [st EXCEPT
                            !.calls = @ \o <<[handler |-> handler,
                                              once |-> once1,
                                              depth |-> depth]>>,
                            !.ran = @ \cup {handler}]
             back    == IF handler \in st.ran
                        THEN called
                        ELSE RunCall(called, type, body[handler], body, depth)
             after   == IF once1
                        THEN [back EXCEPT !.events = off(back.events, type, handler)]
                        ELSE back
         IN  EmitLoopRe(after, type, once1, i + 1, body, depth)

\* emit(type) at nesting depth `depth` (events.ts:192-210).
emitRe(st, type, body, depth) ==
    IF ~isValidType(type) THEN st
    ELSE IF type \notin DOMAIN st.events \/ Len(st.events[type]) = 0 THEN st
    ELSE EmitLoopRe(st, type, FALSE, 0, body, depth)

\* A top-level emit(type) on the registry ev with flags fl.
emitWith(ev, fl, type, body) ==
    emitRe([events |-> ev, once |-> fl, ran |-> {}, calls |-> <<>>], type, body, 0)

\* The handlers invoked by the pass at nesting depth d, in order.
RECURSIVE InvokedAt(_, _)
InvokedAt(cs, d) ==
    IF cs = <<>> THEN <<>>
    ELSE (IF Head(cs).depth = d THEN <<Head(cs).handler>> ELSE <<>>)
             \o InvokedAt(Tail(cs), d)

----------------------------------------------------------------------------
\* The elements of an array.
Elems(s) == {s[i] : i \in 1..Len(s)}

\* The registration order after a call: handlers no longer registered drop
\* out, handlers newly registered go to the end.
RegOrderAfter(ro, ev) ==
    [k \in StringTypes |->
        LET now  == Elems(Handlers(ev, k))
            kept == SelectSeq(ro[k], LAMBDA h : h \in now)
            new  == SelectSeq(Handlers(ev, k), LAMBDA h : h \notin Elems(ro[k]))
        IN  kept \o new]

\* Number of entries held in all arrays.
RECURSIVE SumLen(_, _)
SumLen(ev, keys) ==
    IF keys = {} THEN 0
    ELSE LET k == CHOOSE x \in keys : TRUE
         IN  Len(ev[k]) + SumLen(ev, keys \ {k})

Registered(ev) == SumLen(ev, DOMAIN ev)

\* new EventEmitter()
\* No emit is in progress.
NoPass ==
    [active |-> FALSE, i |-> 0, evOnce |-> FALSE, running |-> Undefined,
     n |-> 0, linked |-> TRUE, handlers |-> <<>>]

Init ==
    /\ _events = NewEvents
    /\ _once = <<>>
    /\ regOrder = [k \in StringTypes |-> <<>>]
    /\ pass = NoPass

AddListener(type, handler) ==
    LET r == addListener(_events, _once, type, handler)
    IN  /\ Registered(_events) < MaxRegistered
        /\ _events' = r.events
        /\ _once' = r.once
        /\ regOrder' = RegOrderAfter(regOrder, r.events)
        /\ UNCHANGED pass

Once(type, handler) ==
    LET r == once(_events, _once, type, handler)
    IN  /\ Registered(_events) < MaxRegistered
        /\ _events' = r.events
        /\ _once' = r.once
        /\ regOrder' = RegOrderAfter(regOrder, r.events)
        /\ UNCHANGED pass

Off(type, handler) ==
    LET ev == off(_events, type, handler)
    IN  /\ _events' = ev
        /\ regOrder' = RegOrderAfter(regOrder, ev)
        /\ UNCHANGED <<_once, pass>>

Emit(type, data, throwers) ==
    LET r == emit(_events, _once, type, data, throwers)
    IN  /\ _events' = r.events
        /\ regOrder' = RegOrderAfter(regOrder, r.events)
        /\ UNCHANGED <<_once, pass>>

On(type, handler) ==
    LET r == on(_events, _once, type, handler)
    IN  /\ Registered(_events) < MaxRegistered
        /\ _events' = r.events
        /\ _once' = r.once
        /\ regOrder' = RegOrderAfter(regOrder, r.events)
        /\ UNCHANGED pass

RemoveListener(type, handler) ==
    LET ev == removeListener(_events, type, handler)
    IN  /\ _events' = ev
        /\ regOrder' = RegOrderAfter(regOrder, ev)
        /\ UNCHANGED <<_once, pass>>

Next ==
    \/ \E type \in TypeArgs, handler \in HandlerArgs : AddListener(type, handler)
    \/ \E type \in TypeArgs, handler \in HandlerArgs : Once(type, handler)
    \/ \E type \in TypeArgs \cup {Undefined}, handler \in HandlerArgs \cup {Undefined} :
           Off(type, handler)
    \/ \E type \in TypeArgs, data \in Payloads, throwers \in SUBSET Callables :
           Emit(type, data, throwers)
    \/ \E type \in TypeArgs, handler \in HandlerArgs : On(type, handler)
    \/ \E type \in TypeArgs \cup {Undefined}, handler \in HandlerArgs \cup {Undefined} :
           RemoveListener(type, handler)

Spec == Init /\ [][Next]_vars

----------------------------------------------------------------------------
\* One emit(PassType) taken step by step, with handlers that call
\* on/once/off while they run and then return.

\* The type being emitted.
PassType == "a"

\* The handlers that exist while the pass is followed step by step.
NumPassHandlers == 2

PassCallables == {"h" \o ToString(i) : i \in 1..NumPassHandlers}

\* The array object the pass iterates (events.ts:195): the one stored under
\* _events[type] until off(type) or off() puts another object in its place.
PassHandlers == IF pass.linked THEN Handlers(_events, PassType) ELSE pass.handlers

\* The array iterator hands out an element with the index stuck.
IterStay(i) == i

\* The array iterator's next(): hands out the element at its index and
\* advances by one (events.ts:200).
IterAdvance(i) == i + 1

\* emit(type) is called with a valid type and a non-empty array
\* (events.ts:193-198).
EmitBegin ==
    /\ ~pass.active
    /\ isValidType(PassType)
    /\ Len(Handlers(_events, PassType)) > 0
    /\ pass' = [NoPass EXCEPT !.active = TRUE]
    /\ UNCHANGED <<_events, _once, regOrder>>

\* The loop takes the next handler and calls it (events.ts:200-205).
InvokeNext ==
    /\ pass.active
    /\ pass.running = Undefined
    /\ pass.i < Len(PassHandlers)
    /\ LET handler == PassHandlers[pass.i + 1]
       IN  pass' = [pass EXCEPT !.i = IterAdvance(pass.i),
                                !.evOnce = pass.evOnce \/ OnceFlag(_once, handler),
                                !.running = handler,
                                !.n = pass.n + 1]
    /\ UNCHANGED <<_events, _once, regOrder>>

\* The running handler calls on(type, g) or once(type, g).
HandlerRegisters(oneShot, g) ==
    LET r == IF oneShot THEN once(_events, _once, PassType, g)
                        ELSE on(_events, _once, PassType, g)
    IN  /\ pass.active
        /\ pass.running # Undefined
        /\ _events' = r.events
        /\ _once' = r.once
        /\ regOrder' = RegOrderAfter(regOrder, r.events)
        /\ UNCHANGED pass

\* The running handler calls off(type, g), off(type) or off().  The last two
\* store a new array, and the loop keeps the one it started with.
HandlerUnregisters(type, g) ==
    LET ev == off(_events, type, g)
    IN  /\ pass.active
        /\ pass.running # Undefined
        /\ _events' = ev
        /\ regOrder' = RegOrderAfter(regOrder, ev)
        /\ pass' = IF pass.linked /\ (type = Undefined \/ g = Undefined)
                   THEN [pass EXCEPT !.linked = FALSE,
                                     !.handlers = Handlers(_events, PassType)]
                   ELSE pass
        /\ UNCHANGED _once

\* The running handler returns; a one-shot pass removes it (events.ts:208).
HandlerReturn ==
    LET ev == IF pass.evOnce THEN off(_events, PassType, pass.running) ELSE _events
    IN  /\ pass.active
        /\ pass.running # Undefined
        /\ _events' = ev
        /\ regOrder' = RegOrderAfter(regOrder, ev)
        /\ pass' = [pass EXCEPT !.running = Undefined]
        /\ UNCHANGED _once

\* The iterator is exhausted and emit returns (events.ts:200, 210).
EmitReturn ==
    /\ pass.active
    /\ pass.running = Undefined
    /\ pass.i >= Len(PassHandlers)
    /\ pass' = NoPass
    /\ UNCHANGED <<_events, _once, regOrder>>

NextRe ==
    \/ \E handler \in PassCallables : ~pass.active /\ AddListener(PassType, handler)
    \/ \E handler \in PassCallables : ~pass.active /\ Once(PassType, handler)
    \/ \E handler \in PassCallables : ~pass.active /\ Off(PassType, handler)
    \/ EmitBegin
    \/ InvokeNext
    \/ \E oneShot \in BOOLEAN, g \in PassCallables : HandlerRegisters(oneShot, g)
    \/ \E type \in {PassType, Undefined}, g \in PassCallables \cup {Undefined} :
           HandlerUnregisters(type, g)
    \/ HandlerReturn
    \/ EmitReturn

\* Every handler returns and the loop keeps running until emit returns.
FairRe == WF_vars(InvokeNext) /\ WF_vars(HandlerReturn) /\ WF_vars(EmitReturn)

SpecRe == Init /\ [][NextRe]_vars /\ FairRe

----------------------------------------------------------------------------
\* Helpers of the properties.

\* The handlers a pass invoked, in the order of invocation.
Invoked(cs) == [i \in 1..Len(cs) |-> cs[i].handler]

\* How often a handler occurs in an array.
Count(s, h) == Cardinality({i \in 1..Len(s) : s[i] = h})

\* h1 stands before h2 in the array.
Before(s, h1, h2) == \E i, j \in 1..Len(s) : i < j /\ s[i] = h1 /\ s[j] = h2

\* Every key but `type` holds the same array in both registries.
OthersUnchanged(ev0, ev1, type) ==
    \A k \in (DOMAIN ev0 \cup DOMAIN ev1) \ {type} :
        k \in DOMAIN ev0 /\ k \in DOMAIN ev1 /\ ev0[k] = ev1[k]

\* The other string type.
OtherTypes(type) == StringTypes \ {type}

----------------------------------------------------------------------------
\* C1: when no handler throws, emit(T) invokes every handler that is in T's
\* array at the moment of the call exactly once before it returns, whatever
\* mix of one-shot and persistent handlers the array holds.
C1_EmitInvokesEveryHandler ==
    \A type \in StringTypes, data \in Payloads :
        LET r == emit(_events, _once, type, data, {})
        IN  /\ r.ret = "undefined"
            /\ \A h \in Elems(Handlers(_events, type)) : Count(Invoked(r.calls), h) = 1

\* C2: after once(T,H) returned true, two consecutive emit(T) calls invoke H
\* exactly once in total and H is absent from T's array after the first of
\* them, whatever other handlers are registered on T.
C2_OnceAutoRemoval ==
    \A type \in StringTypes, h \in Callables, data \in Payloads :
        LET r0 == once(_events, _once, type, h)
            r1 == emit(r0.events, r0.once, type, data, {})
            r2 == emit(r1.events, r0.once, type, data, {})
        IN  r0.ret =>
                /\ Count(Invoked(r1.calls), h) + Count(Invoked(r2.calls), h) = 1
                /\ ~includes(Handlers(r1.events, type), h)

\* C3: no type's array holds the same handler more than once.
C3_Uniqueness ==
    \A k \in DOMAIN _events : \A h \in Callables : Count(_events[k], h) <= 1

\* C3 witness: a type holds two handlers, one of them also registered on the
\* other type, and registering it again on either type is refused.
C3_Witness ==
    \E type \in StringTypes, h \in Callables :
        /\ Len(Handlers(_events, type)) >= 2
        /\ includes(Handlers(_events, type), h)
        /\ \E t2 \in OtherTypes(type) : includes(Handlers(_events, t2), h)
        /\ ~addListener(_events, _once, type, h).ret
        /\ ~once(_events, _once, type, h).ret

\* C4: in an emit(T) pass, if H1 was registered on T before H2 and both are
\* invoked, H1 is invoked before H2 (and no handler is invoked twice).
C4_DispatchOrder ==
    \A type \in StringTypes, data \in Payloads, throwers \in SUBSET Callables :
        LET cs == Invoked(emit(_events, _once, type, data, throwers).calls)
        IN  \A i, j \in 1..Len(cs) :
                \/ i = j
                \/ (i < j) = Before(regOrder[type], cs[i], cs[j])

\* C4 witness: a pass over three registered handlers that invokes at least two.
C4_Witness ==
    \E type \in StringTypes, data \in Payloads :
        /\ Len(regOrder[type]) >= 3
        /\ Len(emit(_events, _once, type, data, {}).calls) >= 2

\* C5: in every emit(T, data) pass, a handler whose one-shot flag is false is
\* invoked with an event whose type is T, whose data is data and whose once
\* field is false, whichever handlers were invoked before it in the pass.
C5_EventFidelity ==
    \A type \in StringTypes, data \in Payloads, throwers \in SUBSET Callables :
        LET cs == emit(_events, _once, type, data, throwers).calls
        IN  \A i \in 1..Len(cs) :
                ~OnceFlag(_once, cs[i].handler) =>
                    cs[i].event = [type |-> type, data |-> data, once |-> FALSE]

C7_SelectiveRemoval ==
    \A type \in StringTypes, h \in Callables, data \in Payloads :
        LET before == Handlers(_events, type)
            ev1    == off(_events, type, h)
            r      == emit(ev1, _once, type, data, {})
        IN  /\ Handlers(ev1, type) = SelectSeq(before, LAMBDA g : g # h)
            /\ OthersUnchanged(_events, ev1, type)
            /\ ~includes(before, h) => ev1 = _events
            /\ Invoked(r.calls) = Handlers(ev1, type)

\* C8: off(T) empties T's array and leaves every other type's array
\* unchanged; off() empties every type's array; after either, emit on an
\* emptied type invokes no handler and every handler can be registered on it
\* (addListener returns true).
C8_BulkRemoval ==
    /\ \A type \in StringTypes :
           LET ev1 == off(_events, type, Undefined)
           IN  /\ Handlers(ev1, type) = <<>>
               /\ OthersUnchanged(_events, ev1, type)
               /\ \A data \in Payloads, throwers \in SUBSET Callables :
                      emit(ev1, _once, type, data, throwers).calls = <<>>
               /\ \A h \in Callables : addListener(ev1, _once, type, h).ret
    /\ LET ev0 == off(_events, Undefined, Undefined)
       IN  \A type \in StringTypes :
               /\ Handlers(ev0, type) = <<>>
               /\ \A data \in Payloads, throwers \in SUBSET Callables :
                      emit(ev0, _once, type, data, throwers).calls = <<>>
               /\ \A h \in Callables : addListener(ev0, _once, type, h).ret

\* C8 witness: both types hold handlers, one of them two, so that off(T)
\* removes several entries and has another type's array to leave alone.
C8_Witness ==
    \E type \in StringTypes :
        /\ Len(Handlers(_events, type)) >= 2
        /\ \E t2 \in OtherTypes(type) : Len(Handlers(_events, t2)) >= 1
        /\ off(_events, type, Undefined) # _events
        /\ off(_events, type, Undefined) # off(_events, Undefined, Undefined)

\* C9: addListener(T,H) and once(T,H) return false and leave every array and
\* every handler's one-shot flag unchanged when T is not a string or H is not
\* a function.
C9_ValidationNoOp ==
    \A type \in TypeArgs \cup {Undefined}, h \in HandlerArgs \cup {Undefined} :
        (type \notin StringTypes \/ h \notin Callables) =>
            /\ addListener(_events, _once, type, h) =
                   [events |-> _events, once |-> _once, ret |-> FALSE]
            /\ once(_events, _once, type, h) =
                   [events |-> _events, once |-> _once, ret |-> FALSE]

\* C9 witness: a registry with a one-shot and a persistent handler, on which
\* the calls with the number 123 as type and with a non-function are refused.
C9_Witness ==
    /\ \E h, g \in Callables :
           /\ OnceFlag(_once, h) /\ g \in DOMAIN _once /\ ~_once[g]
           /\ \E t \in StringTypes : includes(Handlers(_events, t), h)
           /\ \E t \in StringTypes : includes(Handlers(_events, t), g)
           /\ ~once(_events, _once, Num123, g).ret
    /\ ~addListener(_events, _once, "a", NotCallable).ret

\* C10: when a handler throws during emit(T), emit throws to its caller, the
\* pass ends with that handler, and no handler that stands later in T's array
\* is invoked in the pass.
C10_ThrowAborts ==
    \A type \in StringTypes, data \in Payloads, throwers \in SUBSET Callables :
        LET hs == Handlers(_events, type)
            r  == emit(_events, _once, type, data, throwers)
            cs == Invoked(r.calls)
        IN  /\ (r.ret = "throw") = (\E i \in 1..Len(cs) : cs[i] \in throwers)
            /\ \A i \in 1..Len(cs) : cs[i] \in throwers =>
                   /\ i = Len(cs)
                   /\ \A g \in Elems(hs) : Before(hs, cs[i], g) => ~includes(cs, g)

\* C10 witness: a pass in which the second handler invoked throws while a
\* third handler stands behind it.
C10_Witness ==
    \E type \in StringTypes, data \in Payloads, h \in Callables :
        LET hs == Handlers(_events, type)
            r  == emit(_events, _once, type, data, {h})
        IN  /\ r.ret = "throw"
            /\ Len(r.calls) = 2
            /\ \E g \in Elems(hs) : Before(hs, h, g)

----------------------------------------------------------------------------
\* C11: once(T,H) returns what addListener(T,H) returns in the same state and
\* leaves the same arrays; it sets H's one-shot flag to true when that value
\* is true, and a refused once(T,H) leaves H's flag and T's array unchanged,
\* so a handler registered with addListener stays persistent.
C11_OnceDelegates ==
    \A type \in TypeArgs \cup {Undefined}, h \in HandlerArgs \cup {Undefined} :
        LET a == addListener(_events, _once, type, h)
            o == once(_events, _once, type, h)
        IN  /\ o.ret = a.ret
            /\ o.events = a.events
            /\ o.ret => o.once = Put(_once, h, TRUE)
            /\ ~o.ret => o.once = _once /\ o.events = _events

\* C11 witness: a persistent handler is on a type and once() on that type is
\* refused for it, while once() is accepted for another handler.
C11_Witness ==
    \E type \in StringTypes, h, g \in Callables :
        /\ includes(Handlers(_events, type), h)
        /\ h \in DOMAIN _once /\ ~_once[h]
        /\ ~once(_events, _once, type, h).ret
        /\ once(_events, _once, type, g).ret

C13_Aliases ==
    \A type \in TypeArgs \cup {Undefined}, h \in HandlerArgs \cup {Undefined} :
        /\ on(_events, _once, type, h) = addListener(_events, _once, type, h)
        /\ removeListener(_events, type, h) = off(_events, type, h)

\* C13 witness: on() would register a handler and set its flag back to
\* false, and each form of removeListener would change the registry.
C13_Witness ==
    \E type \in StringTypes, h, g \in Callables :
        /\ OnceFlag(_once, h)
        /\ on(_events, _once, type, h).ret
        /\ Len(Handlers(_events, type)) >= 2
        /\ removeListener(_events, type, g) # _events
        /\ removeListener(_events, type, Undefined) # removeListener(_events, type, g)
        /\ removeListener(_events, Undefined, Undefined) #
               removeListener(_events, type, Undefined)

\* C14: emit(T) removes from T's array only handlers whose one-shot flag is
\* true: a handler registered on T with addListener and never with once is
\* still in T's array after emit(T), behind the handlers it was behind, whatever
\* one-shot handlers are registered on T with it.
C14_EmitKeepsPersistent ==
    \A type \in StringTypes, h \in Callables, data \in Payloads :
        (h \notin DOMAIN _once) =>
            LET r0 == addListener(_events, _once, type, h)
                r  == emit(r0.events, r0.once, type, data, {})
                af == Handlers(r.events, type)
            IN  /\ includes(af, h)
                /\ \A g \in Elems(af) \ {h} : Before(af, g, h)

C17_OffInvalidType ==
    \A h \in HandlerArgs \cup {Undefined} :
        \A k \in StringTypes :
            Handlers(off(_events, Num123, h), k) = Handlers(_events, k)

C15_SnapshotDispatch ==
    \A type \in StringTypes, h \in Callables, g \in Callables :
        \A o \in {"on", "off"} :
            (\A k \in Elems(Handlers(_events, type)) : ~OnceFlag(_once, k)) =>
                InvokedAt(emitWith(_events, _once, type,
                                   Body(h, [op |-> o, handler |-> g])).calls, 0)
                    = Handlers(_events, type)

\* C19: a handler registered with once only is invoked at most once for that
\* registration, also when it calls emit(T) from inside its invocation.
C19_OnceAtMostOnce ==
    \A type \in StringTypes, h \in Callables :
        (\A k \in StringTypes : ~includes(Handlers(_events, k), h)) =>
            LET r0 == once(_events, _once, type, h)
                st == emitWith(r0.events, r0.once, type,
                               Body(h, [op |-> "emit", handler |-> Undefined]))
            IN  Count(InvokedAt(st.calls, 0) \o InvokedAt(st.calls, 1), h) <= 1

\* C20: an emit(T) pass during which handlers register and unregister
\* handlers on T terminates: with N distinct handlers in existence, each
\* returning and none calling emit, the pass makes at most N handler
\* invocations and then returns.
C20_PassTerminates ==
    /\ [](pass.active => pass.n <= NumPassHandlers)
    /\ (pass.active ~> ~pass.active)

\* C20 witness: a pass is in its N-th invocation and the running handler has
\* taken a handler out of the array being iterated.
C20_Witness ==
    /\ pass.active
    /\ pass.n = NumPassHandlers
    /\ pass.running # Undefined
    /\ pass.linked
    /\ Len(Handlers(_events, PassType)) < NumPassHandlers

====
